---- MODULE Spec2Model ----
(***************************************************************************)
(* A model of the tool server of the discord_bot repository                *)
(* (src/mcp-server/server.py): the curriculum progress store, one progress *)
(* document per language in the learning_progress collection, and the      *)
(* weight record store, the weights collection.  Every tool is a request   *)
(* handler; a handler's steps are its operations on the document store.    *)
(* Only _advance_topic makes two of them (find_one, then update_one), and  *)
(* requests of different clients may interleave between the two.           *)
(***************************************************************************)
EXTENDS Integers, Sequences, FiniteSets, Bags, TLC

\* ------------------------------------------------------------------ bounds
\* The length of the longest curriculum file.
MaxTopics == 2
\* The number of advance requests that may be between their read and write.
MaxReq == 2
\* The number of weight records the store may hold.
MaxRecords == 2
\* The last reading of the clock.
MaxClock == 1
\* The number of advance calls one client makes per language between resets.
MaxCalls == 3
\* The longest tool list a server advertises.
MaxTools == 3
\* The calls of initialize_personas in one run of the process.
MaxRuns == 2
\* The messages the bot receives in one run.
MaxMessages == 2
\* The characters of the longest content given to send_long_message, and the
\* largest max_length it is called with.
MaxContent == 5
MaxLength == 3

\* --------------------------------------------------------------- constants
\* init_db's languages, in the order it walks them.
languages == <<"rust", "cpp", "python">>

Languages == {languages[k] : k \in 1..Len(languages)}

\* The curriculum files under data/: a long one, a file of one topic, and a
\* language whose file is missing (or holds an empty list).
total_topics ==
    [l \in Languages |->
        CASE l = "rust" -> MaxTopics
          [] l = "cpp" -> 1
          [] OTHER -> 0]

\* What a client may send to record_weight, which takes any float and any
\* string: weights in both units, a weight of 0, a unit that is neither.
Entries ==
    {[weight |-> 70, unit |-> "kg"], [weight |-> 154, unit |-> "lbs"],
     [weight |-> 0, unit |-> "kg"], [weight |-> 70, unit |-> "stone"]}

\* The entry of a curriculum file at (0-based) position p.
Topic(language, p) == [language |-> language, position |-> p]

\* A progress document that is not in the collection.
NoDoc == [missing |-> TRUE]

VARIABLES
    progress,       \* language -> its progress document, or NoDoc
    weights,        \* the weights collection, in insertion order
    now,            \* the clock datetime.utcnow() reads
    inflight,       \* the bag of advance requests between their find_one and their update_one
    last,           \* the last completed call: its name, arguments, result and the stores before it
    prev,           \* the call completed before it (kept for one client's calls)
    advances,       \* language -> advance calls one client completed since the last reset
    advertised,     \* the tools the MCP server lists once it is up
    mcp_tools,      \* initialize_personas: its list of discovered tools
    attempt,        \* initialize_personas: the loop variable of the discovery loop
    pc,             \* initialize_personas: where the call is
    personas,       \* the global catalog: persona id -> its tools
    log,            \* the connection attempts and sleeps of the running call, in order
    runs,           \* the calls of initialize_personas so far
    built,          \* the tools and the catalog of each call that finished, in order
    handlers,       \* the bot: message number -> the handler that message started
    received,       \* the bot: the messages it received so far
    modes,          \* the user mode store: user id -> persona id
    sending         \* send_long_message: its arguments, its chunks and the messages sent

\* The variables of the MCP server, those of initialize_personas, and those
\* of the bot.
server == <<progress, weights, now, inflight, last, prev, advances>>

agent == <<advertised, mcp_tools, attempt, pc, personas, log, runs, built>>

bot == <<handlers, received, modes, sending>>

vars == <<progress, weights, now, inflight, last, prev, advances,
          advertised, mcp_tools, attempt, pc, personas, log, runs, built,
          handlers, received, modes, sending>>

\* ------------------------------------------------------------- the stores

\* load_curriculum: the file's list, [] when the file is missing.
load_curriculum(language) ==
    [k \in 1..total_topics[language] |-> Topic(language, k - 1)]

\* Python's curriculum[i] raises IndexError past the end.
IndexError == [kind |-> "IndexError"]

Subscript(curriculum, i) ==
    IF 0 <= i /\ i < Len(curriculum) THEN curriculum[i + 1] ELSE IndexError

\* learning_progress_col.find_one({"_id": f"{language}_progress"}) followed by
\* progress["current_topic_index"] if progress else 0
ReadIndex(store, language) ==
    IF store[language] = NoDoc THEN 0 ELSE store[language].current_topic_index

\* update_many({}, ...) in place of update_one with the language's _id: every
\* document there is gets the index.
UpdateMany(store, language, index, at) ==
    [l \in DOMAIN store |->
        IF store[l] = NoDoc
        THEN NoDoc
        ELSE [current_topic_index |-> index, updated_at |-> at]]

\* learning_progress_col.update_one({"_id": ...}, {"$set": {...}}): no upsert,
\* a missing document stays missing.
UpdateOne(store, language, index, at) ==
    IF store[language] = NoDoc
    THEN store
    ELSE [store EXCEPT ![language] =
              [current_topic_index |-> index, updated_at |-> at]]

\* init_db: inserts the missing documents in order; an exception (the store
\* is unreachable) ends the loop, logged, with the rest not inserted.
init_db(inserted) ==
    [l \in Languages |->
        IF \E k \in 1..inserted : languages[k] = l
        THEN [current_topic_index |-> 0, updated_at |-> 0]
        ELSE NoDoc]

\* ----------------------------------------------------------- the results

\* What the helpers return for a language without curriculum when the test
\* of the loaded curriculum is left out: 0 >= 0 topics.
NotFoundAsCompleted(language) ==
    [kind |-> "All topics completed", language |-> language,
     current_index |-> 0, total_topics |-> 0]

NotFound(language) == [kind |-> "curriculum not found", language |-> language]

Completed(language, index, total) ==
    [kind |-> "All topics completed", language |-> language,
     current_index |-> index, total_topics |-> total]

Congratulations(language, index, total) ==
    [kind |-> "Congratulations", language |-> language,
     current_index |-> index, total_topics |-> total]

TopicResult(language, topic, index, total) ==
    IF topic = IndexError
    THEN IndexError
    ELSE [kind |-> "topic", topic |-> topic, language |-> language,
          current_index |-> index + 1, total_topics |-> total]

\* --------------------------------------------------------------- history

NoCall == [op |-> "none"]

NoArgs == <<>>

Call(op, language, args, result) ==
    [op |-> op, language |-> language, args |-> args, result |-> result,
     progress |-> progress, weights |-> weights, clock |-> now]

Summary(call) ==
    IF call = NoCall
    THEN NoCall
    ELSE [op |-> call.op, language |-> call.language, args |-> call.args,
          result |-> call.result, clock |-> call.clock,
          progress |-> call.progress]

Returns(op, language, args, result) ==
    last' = Call(op, language, args, result)

\* ------------------------------------------------------- curriculum tools

\* The test both helpers make before they use the index.
AllCompletedOffByOne(index, total) == index > total

AllCompleted(index, total) == index >= total

\* _get_topic's result in a state of the store.
GetTopicResultNextEntry(store, language) ==
    LET curriculum == load_curriculum(language)
        current_index == ReadIndex(store, language)
    IN  IF curriculum = <<>>
        THEN NotFound(language)
        ELSE IF AllCompleted(current_index, Len(curriculum))
             THEN Completed(language, current_index, Len(curriculum))
             ELSE TopicResult(language, Subscript(curriculum, current_index + 1),
                              current_index, Len(curriculum))

GetTopicResult(store, language) ==
    LET curriculum == load_curriculum(language)
        current_index == ReadIndex(store, language)
    IN  IF curriculum = <<>>
        THEN NotFound(language)
        ELSE IF AllCompleted(current_index, Len(curriculum))
             THEN Completed(language, current_index, Len(curriculum))
             ELSE TopicResult(language, Subscript(curriculum, current_index),
                              current_index, Len(curriculum))

\* get_<language>_topic: _get_topic, one find_one.
get_topic_touching(language) ==
    /\ Returns("get_topic", language, NoArgs, GetTopicResult(progress, language))
    /\ progress' = UpdateOne(progress, language, ReadIndex(progress, language), now)
    /\ UNCHANGED <<weights, now, inflight>>

get_topic(language) ==
    /\ Returns("get_topic", language, NoArgs, GetTopicResult(progress, language))
    /\ UNCHANGED <<progress, weights, now, inflight>>

\* The index _advance_topic writes.
NewIndexStale(current_index) == current_index

NewIndex(current_index) == current_index + 1

\* _advance_topic's result once it has written new_index.
AdvanceResultOldEntry(language, new_index) ==
    LET curriculum == load_curriculum(language)
    IN  IF AllCompleted(new_index, Len(curriculum))
        THEN Congratulations(language, new_index, Len(curriculum))
        ELSE TopicResult(language, Subscript(curriculum, new_index - 1),
                         new_index, Len(curriculum))

AdvanceResult(language, new_index) ==
    LET curriculum == load_curriculum(language)
    IN  IF AllCompleted(new_index, Len(curriculum))
        THEN Congratulations(language, new_index, Len(curriculum))
        ELSE TopicResult(language, Subscript(curriculum, new_index),
                         new_index, Len(curriculum))

\* advance_<language>_topic, up to and with its find_one: the early returns
\* (no curriculum, all topics completed) end the call; otherwise the request
\* holds new_index until its update_one.
advance_read(language) ==
    /\ BagCardinality(inflight) < MaxReq
    /\ LET curriculum == load_curriculum(language)
           current_index == ReadIndex(progress, language)
       IN  IF curriculum = <<>>
           THEN /\ Returns("advance_topic", language, NoArgs, NotFound(language))
                /\ UNCHANGED inflight
           ELSE IF AllCompleted(current_index, Len(curriculum))
           THEN /\ Returns("advance_topic", language, NoArgs,
                           Completed(language, current_index, Len(curriculum)))
                /\ UNCHANGED inflight
           ELSE /\ inflight' = inflight (+) SetToBag({
                                   [language |-> language,
                                    new_index |-> NewIndex(current_index),
                                    reset_seen |-> FALSE]})
                /\ UNCHANGED last
    /\ UNCHANGED <<progress, weights, now>>

\* advance_<language>_topic, from its update_one to its return.
advance_write(request) ==
    /\ BagIn(request, inflight)
    /\ progress' = UpdateOne(progress, request.language, request.new_index, now)
    /\ last' = [Call("advance_topic", request.language, NoArgs,
                     AdvanceResult(request.language, request.new_index))
                EXCEPT !.args = [read_index |-> request.new_index - 1,
                                 reset_seen |-> request.reset_seen]]
    /\ inflight' = inflight (-) SetToBag({request})
    /\ UNCHANGED <<weights, now>>

\* The requests in flight, those that read the index of a language marked as
\* having a reset of it between their read and their write.
SeeReset(language) ==
    LET Seen(request) ==
            IF request.language = language
            THEN [request EXCEPT !.reset_seen = TRUE]
            ELSE request
        after == {Seen(request) : request \in BagToSet(inflight)}
    IN  [request \in after |->
            LET from == {q \in BagToSet(inflight) : Seen(q) = request}
                Sum[S \in SUBSET from] ==
                    IF S = {} THEN 0
                    ELSE LET q == CHOOSE x \in S : TRUE
                         IN  inflight[q] + Sum[S \ {q}]
            IN  Sum[from]]

\* reset_<language>_progress: _reset_progress, one update_one.
reset_progress_rust_only(language) ==
    /\ progress' = UpdateOne(progress, "rust", 0, now)
    /\ inflight' = SeeReset("rust")
    /\ Returns("reset_progress", language, NoArgs, [kind |-> "progress successfully reset"])
    /\ UNCHANGED <<weights, now>>

reset_progress(language) ==
    /\ progress' = UpdateOne(progress, language, 0, now)
    /\ inflight' = SeeReset(language)
    /\ Returns("reset_progress", language, NoArgs, [kind |-> "progress successfully reset"])
    /\ UNCHANGED <<weights, now>>

\* ----------------------------------------------------------- weight tools

\* datetime.isoformat(): the text of a timestamp; IsoParse reads it back.
IsoFormat(t) == [isoformat |-> t]

IsoParse(text) == text.isoformat

\* A stored record as a tool returns it: the {"_id": 0} projection, and the
\* timestamp as text.
Returned(record) ==
    [weight |-> record.weight, unit |-> record.unit,
     timestamp |-> IsoFormat(record.timestamp)]

\* The orders sort("timestamp", 1) may give: the timestamps ascending.
SortedByTimestampAsc(col) ==
    LET n == Len(col)
        perms == {p \in [1..n -> 1..n] : \A i, j \in 1..n : i # j => p[i] # p[j]}
    IN  {[i \in 1..n |-> col[p[i]]] : p \in
            {q \in perms : \A i \in 1..n, j \in 1..n :
                 i < j => col[q[i]].timestamp <= col[q[j]].timestamp}}

\* The orders sort("timestamp", -1) may give a collection: every arrangement
\* with the timestamps descending; the order of records with equal
\* timestamps is the store's choice.
SortedByTimestampDesc(col) ==
    LET n == Len(col)
        perms == {p \in [1..n -> 1..n] : \A i, j \in 1..n : i # j => p[i] # p[j]}
    IN  {[i \in 1..n |-> col[p[i]]] : p \in
            {q \in perms : \A i \in 1..n, j \in 1..n :
                 i < j => col[q[i]].timestamp >= col[q[j]].timestamp}}

\* record_weight with replace_one({}, entry, upsert=True) in place of
\* insert_one: the new record takes the place of the first one.
record_weight_replacing(weight, unit) ==
    /\ Len(weights) < MaxRecords
    /\ weights' = IF weights = <<>>
                  THEN <<[weight |-> weight, unit |-> unit, timestamp |-> now]>>
                  ELSE [weights EXCEPT ![1] =
                           [weight |-> weight, unit |-> unit, timestamp |-> now]]
    /\ Returns("record_weight", "none", [weight |-> weight, unit |-> unit],
               [kind |-> "Recorded", weight |-> weight, unit |-> unit])
    /\ UNCHANGED <<progress, now, inflight>>

\* record_weight: one insert_one of what the client sent.
record_weight(weight, unit) ==
    /\ Len(weights) < MaxRecords
    /\ weights' = Append(weights, [weight |-> weight, unit |-> unit, timestamp |-> now])
    /\ Returns("record_weight", "none", [weight |-> weight, unit |-> unit],
               [kind |-> "Recorded", weight |-> weight, unit |-> unit])
    /\ UNCHANGED <<progress, now, inflight>>

\* get_weights: the sorted cursor, listed.
get_weights ==
    /\ \E sorted \in SortedByTimestampDesc(weights) :
          Returns("get_weights", "none", NoArgs,
                  [kind |-> "records",
                   records |-> [i \in 1..Len(sorted) |-> Returned(sorted[i])]])
    /\ UNCHANGED <<progress, weights, now, inflight>>

\* get_last_weight without the test of what find_one returned: None has no
\* get.
get_last_weight_unchecked ==
    /\ IF weights = <<>>
       THEN Returns("get_last_weight", "none", NoArgs,
                    [kind |-> "AttributeError"])
       ELSE \E sorted \in SortedByTimestampDesc(weights) :
               Returns("get_last_weight", "none", NoArgs,
                       [kind |-> "record", record |-> Returned(sorted[1])])
    /\ UNCHANGED <<progress, weights, now, inflight>>

\* get_last_weight: find_one with the same sort, or the marker.
get_last_weight ==
    /\ IF weights = <<>>
       THEN Returns("get_last_weight", "none", NoArgs,
                    [kind |-> "No weight records found"])
       ELSE \E sorted \in SortedByTimestampDesc(weights) :
               Returns("get_last_weight", "none", NoArgs,
                       [kind |-> "record", record |-> Returned(sorted[1])])
    /\ UNCHANGED <<progress, weights, now, inflight>>

\* delete_all_weights with delete_one in place of delete_many.
delete_all_weights_one ==
    /\ weights' = IF weights = <<>> THEN <<>> ELSE Tail(weights)
    /\ Returns("delete_all_weights", "none", NoArgs,
               [kind |-> "Deleted",
                deleted_count |-> IF weights = <<>> THEN 0 ELSE 1])
    /\ UNCHANGED <<progress, now, inflight>>

\* delete_all_weights: delete_many({}).
delete_all_weights ==
    /\ weights' = <<>>
    /\ Returns("delete_all_weights", "none", NoArgs,
               [kind |-> "Deleted", deleted_count |-> Len(weights)])
    /\ UNCHANGED <<progress, now, inflight>>

\* Time passes between two operations on the store.
Tick ==
    /\ now < MaxClock
    /\ now' = now + 1
    /\ UNCHANGED <<progress, weights, inflight, last, prev, advances>>
    /\ UNCHANGED <<agent, bot>>

\* ------------------------------------------------ the agent's personas

\* The discovery loop's constants.
max_retries == 5

retry_delay == 5

\* The characters of the strings the partition looks at: the words it
\* searches for, and the tool names of the model.
Spelling(text) ==
    CASE text = "weight" ->
           <<"w", "e", "i", "g", "h", "t">>
      [] text = "data" ->
           <<"d", "a", "t", "a">>
      [] text = "rust" ->
           <<"r", "u", "s", "t">>
      [] text = "cpp" ->
           <<"c", "p", "p">>
      [] text = "python" ->
           <<"p", "y", "t", "h", "o", "n">>
      [] text = "history" ->
           <<"h", "i", "s", "t", "o", "r", "y">>
      [] text = "record_weight" ->
           <<"r", "e", "c", "o", "r", "d", "_", "w", "e", "i", "g", "h", "t">>
      [] text = "get_weights" ->
           <<"g", "e", "t", "_", "w", "e", "i", "g", "h", "t", "s">>
      [] text = "rust_get_topic" ->
           <<"r", "u", "s", "t", "_", "g", "e", "t", "_", "t", "o", "p", "i", "c">>
      [] text = "get_cpp_topic" ->
           <<"g", "e", "t", "_", "c", "p", "p", "_", "t", "o", "p", "i", "c">>
      [] text = "get_python_topic" ->
           <<"g", "e", "t", "_", "p", "y", "t", "h", "o", "n", "_", "t", "o", "p", "i", "c">>
      [] text = "get_history_today" ->
           <<"g", "e", "t", "_", "h", "i", "s", "t", "o", "r", "y", "_", "t", "o", "d", "a", "y">>
      [] text = "rust_history" ->
           <<"r", "u", "s", "t", "_", "h", "i", "s", "t", "o", "r", "y">>
      [] text = "export_data" ->
           <<"e", "x", "p", "o", "r", "t", "_", "d", "a", "t", "a">>
      [] text = "get_current_weather_london" ->
           <<"g", "e", "t", "_", "c", "u", "r", "r", "e", "n", "t", "_", "w", "e", "a", "t", "h", "e", "r", "_", "l", "o", "n", "d", "o", "n">>
      [] text = "get_last_weight" ->
           <<"g", "e", "t", "_", "l", "a", "s", "t", "_", "w", "e", "i", "g", "h", "t">>
      [] text = "delete_all_weights" ->
           <<"d", "e", "l", "e", "t", "e", "_", "a", "l", "l", "_", "w", "e", "i", "g", "h", "t", "s">>
      [] text = "get_rust_topic" ->
           <<"g", "e", "t", "_", "r", "u", "s", "t", "_", "t", "o", "p", "i", "c">>
      [] text = "advance_rust_topic" ->
           <<"a", "d", "v", "a", "n", "c", "e", "_", "r", "u", "s", "t", "_", "t", "o", "p", "i", "c">>
      [] text = "reset_rust_progress" ->
           <<"r", "e", "s", "e", "t", "_", "r", "u", "s", "t", "_", "p", "r", "o", "g", "r", "e", "s", "s">>
      [] text = "advance_cpp_topic" ->
           <<"a", "d", "v", "a", "n", "c", "e", "_", "c", "p", "p", "_", "t", "o", "p", "i", "c">>
      [] text = "reset_cpp_progress" ->
           <<"r", "e", "s", "e", "t", "_", "c", "p", "p", "_", "p", "r", "o", "g", "r", "e", "s", "s">>
      [] text = "advance_python_topic" ->
           <<"a", "d", "v", "a", "n", "c", "e", "_", "p", "y", "t", "h", "o", "n", "_", "t", "o", "p", "i", "c">>
      [] text = "reset_python_progress" ->
           <<"r", "e", "s", "e", "t", "_", "p", "y", "t", "h", "o", "n", "_", "p", "r", "o", "g", "r", "e", "s", "s">>
      [] text = "get_history_britannica" ->
           <<"g", "e", "t", "_", "h", "i", "s", "t", "o", "r", "y", "_", "b", "r", "i", "t", "a", "n", "n", "i", "c", "a">>
      [] text = "get_history_on_this_day" ->
           <<"g", "e", "t", "_", "h", "i", "s", "t", "o", "r", "y", "_", "o", "n", "_", "t", "h", "i", "s", "_", "d", "a", "y">>

\* Python's "word in name" of two strings.
Contains(name, word) ==
    LET n == Spelling(name)
        w == Spelling(word)
    IN  \E i \in 1..(Len(n) - Len(w) + 1) : SubSeq(n, i, i + Len(w) - 1) = w

\* The names a server may give its tools: those of the weight, curriculum
\* and history tools, the weather tool, and names with two of the words.
ToolNames ==
    {"record_weight", "get_weights", "rust_get_topic",
     "get_cpp_topic", "get_python_topic", "get_history_today",
     "rust_history", "export_data", "get_current_weather_london"}

\* A tool the MCP client hands over, and the tool agent_logic defines itself.
McpTool(name) == [name |-> name, source |-> "mcp"]

get_current_weather_london ==
    [name |-> "get_current_weather_london", source |-> "local"]

\* The lists of tools a server may advertise: tools of different names.
ToolLists ==
    LET Seqs(n) == [1..n -> ToolNames]
        lists == UNION {Seqs(n) : n \in 0..MaxTools}
    IN  {[i \in 1..Len(names) |-> McpTool(names[i])] : names \in
            {l \in lists : \A i, j \in 1..Len(l) : i # j => l[i] # l[j]}}

\* The five list comprehensions over mcp_tools.
weight_mcp(tools) ==
    SelectSeq(tools, LAMBDA t : \E word \in {"weight", "data"} : Contains(t.name, word))

\* The rust group with name.startswith("rust") in place of "rust" in name.
rust_mcp_startswith(tools) ==
    SelectSeq(tools, LAMBDA t :
        LET n == Spelling(t.name)
            w == Spelling("rust")
        IN  Len(n) >= Len(w) /\ SubSeq(n, 1, Len(w)) = w)

rust_mcp(tools) == SelectSeq(tools, LAMBDA t : Contains(t.name, "rust"))

cpp_mcp(tools) == SelectSeq(tools, LAMBDA t : Contains(t.name, "cpp"))

python_mcp(tools) == SelectSeq(tools, LAMBDA t : Contains(t.name, "python"))

history_mcp(tools) == SelectSeq(tools, LAMBDA t : Contains(t.name, "history"))

\* The general persona's tools without the history group.
general_tools_local_only(tools) == <<get_current_weather_london>>

general_tools(tools) == <<get_current_weather_london>> \o history_mcp(tools)

Persona(name, tools) == [name |-> name, tools |-> tools]

\* personas[id].tools.extend(...) in place of the assignment of a new
\* persona.
AssignExtending(dict, id, persona) ==
    [k \in DOMAIN dict \cup {id} |->
        IF k # id THEN dict[k]
        ELSE IF id \in DOMAIN dict
        THEN Persona(persona.name, dict[id].tools \o persona.tools)
        ELSE persona]

\* personas[id] = persona.
Assign(dict, id, persona) ==
    [k \in DOMAIN dict \cup {id} |-> IF k = id THEN persona ELSE dict[k]]

\* The five assignments to the catalog, in the order the code makes them.
CreatePersonas(dict, tools) ==
    LET general == Assign(dict, "general", Persona("General", general_tools(tools)))
        weight == Assign(general, "weight", Persona("Weight Tracker", weight_mcp(tools)))
        rust == Assign(weight, "rust", Persona("Rust Tutor", rust_mcp(tools)))
        cpp == Assign(rust, "cpp", Persona("C++ Tutor", cpp_mcp(tools)))
    IN  Assign(cpp, "python", Persona("Python Tutor", python_mcp(tools)))

\* The events of the discovery loop, as the log keeps them.
Attempted(number, raised, tools) ==
    [event |-> "attempt", number |-> number, raised |-> raised, tools |-> tools]

Slept(seconds) == [event |-> "sleep", seconds |-> seconds]

\* A call of initialize_personas starts: no tools yet, the first attempt
\* ahead.
initialize_personas ==
    /\ pc \in {"idle", "done", "raised"}
    /\ runs < MaxRuns
    /\ runs' = runs + 1
    /\ mcp_tools' = <<>>
    /\ attempt' = 0
    /\ log' = <<>>
    /\ pc' = "connect"
    /\ UNCHANGED <<advertised, personas, built>>

\* An attempt that raises, with the last one's exception raised again after
\* the error is logged.
get_tools_raises_fatal ==
    /\ pc = "connect"
    /\ log' = Append(log, Attempted(attempt, TRUE, <<>>))
    /\ pc' = IF attempt < max_retries - 1 THEN "sleep" ELSE "raised"
    /\ UNCHANGED <<advertised, mcp_tools, attempt, personas, runs, built>>

\* An attempt whose client or get_tools raises: the warning, then the sleep
\* when attempts are left, or the error and the end of the loop.
get_tools_raises ==
    /\ pc = "connect"
    /\ log' = Append(log, Attempted(attempt, TRUE, <<>>))
    /\ pc' = IF attempt < max_retries - 1 THEN "sleep" ELSE "create"
    /\ UNCHANGED <<advertised, mcp_tools, attempt, personas, runs, built>>

\* asyncio.sleep(retry_delay), then the next iteration.
sleep ==
    /\ pc = "sleep"
    /\ log' = Append(log, Slept(retry_delay))
    /\ attempt' = attempt + 1
    /\ pc' = "connect"
    /\ UNCHANGED <<advertised, mcp_tools, personas, runs, built>>

\* An attempt whose get_tools returns a list and the loop goes on after a
\* list with tools in it.
get_tools_returns_no_break(tools) ==
    /\ pc = "connect"
    /\ mcp_tools' = tools
    /\ log' = Append(log, Attempted(attempt, FALSE, tools))
    /\ IF attempt < max_retries - 1
       THEN attempt' = attempt + 1 /\ pc' = "connect"
       ELSE pc' = "create" /\ UNCHANGED attempt
    /\ UNCHANGED <<advertised, personas, runs, built>>

\* An attempt whose get_tools returns a list: a list with tools in it ends
\* the loop, the empty list goes to the next iteration, if there is one.
get_tools_returns(tools) ==
    /\ pc = "connect"
    /\ mcp_tools' = tools
    /\ log' = Append(log, Attempted(attempt, FALSE, tools))
    /\ IF tools # <<>>
       THEN pc' = "create" /\ UNCHANGED attempt
       ELSE IF attempt < max_retries - 1
       THEN attempt' = attempt + 1 /\ pc' = "connect"
       ELSE pc' = "create" /\ UNCHANGED attempt
    /\ UNCHANGED <<advertised, personas, runs, built>>

\* After the loop: the partition of mcp_tools and the five personas.
create_personas ==
    /\ pc = "create"
    /\ personas' = CreatePersonas(personas, mcp_tools)
    /\ pc' = "done"
    /\ built' = Append(built, [tools |-> mcp_tools, personas |-> personas'])
    /\ UNCHANGED <<advertised, mcp_tools, attempt, log, runs>>

\* The ids of the catalog in the order of their assignments.
persona_ids == <<"general", "weight", "rust", "cpp", "python">>

\* Persona(...) hands the persona's tools to create_tool_calling_agent and
\* AgentExecutor. Its other arguments are the same in every call; only a
\* toolset with a discovered tool in it gives the library something that
\* differs from call to call, and so something it may reject.
MayRaise(tools) == \E i \in 1..Len(tools) : tools[i].source = "mcp"

\* After the loop, when the construction of the k-th persona raises: the
\* assignments before it are made, those from it on are not, and the
\* exception leaves initialize_personas.
create_personas_raises(k) ==
    /\ pc = "create"
    /\ LET created == CreatePersonas(personas, mcp_tools)
           assigned == {persona_ids[i] : i \in 1..(k - 1)}
       IN  /\ MayRaise(created[persona_ids[k]].tools)
           /\ personas' = [id \in DOMAIN personas \cup assigned |->
                              IF id \in assigned THEN created[id] ELSE personas[id]]
    /\ pc' = "raised"
    /\ UNCHANGED <<advertised, mcp_tools, attempt, log, runs, built>>

\* --------------------------------------------------------------- the bot

\* Who writes in the channels the bot reads, the bot itself among them, and
\* what they write.
bot_user == "bot"

Authors == {bot_user, "ann", "ben"}

Channels == {"office", "lounge"}

Contents == {"!reset", "!rust restart", "!weight 70", "Yes", "no"}

\* str.lower() of the contents.
Lower(content) == IF content = "Yes" THEN "yes" ELSE content

\* content.startswith("!").
StartsWithPrefix(content) == content \in {"!reset", "!rust restart", "!weight 70"}

\* The command process_commands finds in a message.
Command(content) ==
    CASE content = "!reset" -> "reset"
      [] content = "!rust restart" -> "restart"
      [] content = "!weight 70" -> "weight"
      [] OTHER -> "none"

NoMessage == [number |-> 0, author |-> "", channel |-> "", content |-> ""]

\* Python's None, and an exception that leaves a call.
None == [kind |-> "None"]

Raises == [kind |-> "Exception"]

\* The handler a message starts: a command, or the agent for the rest.
\* weight calls its tool at once; reset and restart ask first.
Handler(command, m) ==
    [command |-> command, author |-> m.author, channel |-> m.channel,
     pc |-> CASE command = "agent" -> "invoke"
              [] command = "weight" -> "call"
              [] OTHER -> "prompt",
     prompted_at |-> 0, heard |-> NoMessage, called |-> FALSE,
     outcome |-> "none", response |-> None, reply |-> "none"]

\* The check of reset and restart without the test of the channel.
check_any_channel(handler, m) ==
    /\ m.author = handler.author
    /\ Lower(m.content) = "yes"

\* The check reset and restart give wait_for.
check(handler, m) ==
    /\ m.author = handler.author
    /\ m.channel = handler.channel
    /\ Lower(m.content) = "yes"

\* A message arrives: the waits whose check it passes end with it, and
\* on_message starts, which returns for the bot's own messages, runs the
\* message's command, returns for the other messages with the prefix, and
\* goes to the agent with the rest.
on_message(author, channel, content) ==
    /\ received < MaxMessages
    /\ received' = received + 1
    /\ LET m == [number |-> received + 1, author |-> author,
                 channel |-> channel, content |-> content]
           heard == [h \in DOMAIN handlers |->
                        IF handlers[h].pc = "waiting" /\ check(handlers[h], m)
                        THEN [handlers[h] EXCEPT !.pc = "confirmed", !.heard = m]
                        ELSE handlers[h]]
           started == IF author = bot_user THEN {}
                      ELSE IF Command(content) # "none" THEN {Handler(Command(content), m)}
                      ELSE IF StartsWithPrefix(content) THEN {}
                      ELSE {Handler("agent", m)}
       IN  handlers' = [h \in DOMAIN handlers \cup {m.number : x \in started} |->
                           IF h \in DOMAIN handlers THEN heard[h]
                           ELSE CHOOSE x \in started : TRUE]
    /\ UNCHANGED <<server, agent, modes, sending>>

\* reset and restart: ctx.send of the question, then wait_for.
send_prompt(h) ==
    /\ handlers[h].pc = "prompt"
    /\ handlers' = [handlers EXCEPT ![h].pc = "waiting", ![h].prompted_at = received]
    /\ UNCHANGED <<server, agent, received, modes, sending>>

\* wait_for times out with asyncio.TimeoutError. Where that is the builtin
\* TimeoutError (Python 3.11 on) the except clause sends the cancellation
\* and returns; where it is a class of its own the exception leaves the
\* command.
timeout(h) ==
    /\ handlers[h].pc = "waiting"
    /\ \E caught \in BOOLEAN :
          handlers' = [handlers EXCEPT
                          ![h].pc = IF caught THEN "done" ELSE "raised",
                          ![h].outcome = "timeout",
                          ![h].reply = IF caught THEN "cancelled" ELSE "none"]
    /\ UNCHANGED <<server, agent, received, modes, sending>>

\* The tool of the server a command calls.
ToolOf(command) ==
    CASE command = "reset" -> delete_all_weights
      [] command = "weight" -> record_weight(70, "kg")
      [] OTHER -> reset_progress("rust")

\* call_mcp_tool: the tool runs and its result comes back, or the client
\* fails before the tool runs, or after it ran; a failure is logged and
\* None returned.
call_mcp_tool(tool, outcome) ==
    IF outcome = "refused"
    THEN UNCHANGED <<progress, weights, now, inflight, last>>
    ELSE tool

\* call_mcp_tool without its try: a failure of the client leaves the call.
call_mcp_tool_uncaught(outcome, result) ==
    IF outcome = "returned" THEN result ELSE Raises

\* What call_mcp_tool gives its caller: the result of client.call_tool, and
\* None when the client raised.
call_mcp_tool_returns(outcome, result) ==
    IF outcome = "returned" THEN result ELSE None

\* A command's call of its tool and what it does with the response: the
\* response is sent when it is true, the failure message otherwise. The
\* commands catch nothing around the call.
respond(h) ==
    \E outcome \in {"returned", "refused", "lost"} :
        /\ call_mcp_tool(ToolOf(handlers[h].command), outcome)
        /\ LET response == call_mcp_tool_returns(outcome, last'.result)
           IN  handlers' = [handlers EXCEPT
                               ![h].pc = IF response = Raises THEN "raised" ELSE "done",
                               ![h].called = TRUE,
                               ![h].outcome = outcome,
                               ![h].response = response,
                               ![h].reply = CASE response = Raises -> "none"
                                              [] response # None -> "response"
                                              [] OTHER -> "failed"]

\* reset and restart after the wait: the call of the tool and the message
\* with its response, or with the failure.
confirmed(h) ==
    /\ handlers[h].pc = "confirmed"
    /\ respond(h)
    /\ UNCHANGED <<prev, advances, agent, received, modes, sending>>

\* weight: the call of record_weight and the message with its response, or
\* with the failure.
weight(h) ==
    /\ handlers[h].pc = "call"
    /\ respond(h)
    /\ UNCHANGED <<prev, advances, agent, received, modes, sending>>

\* on_message with a message for the agent: ainvoke raises, or returns an
\* output, which may be empty; on its way the agent may have called
\* delete_all_data_tool. The output is sent when there is one, the apology
\* when ainvoke raised.
ainvoke(h) ==
    /\ handlers[h].pc = "invoke"
    /\ \E outcome \in {"raised", "empty", "output"}, deletes \in BOOLEAN :
          /\ call_mcp_tool(delete_all_weights,
                           IF deletes THEN "returned" ELSE "refused")
          /\ handlers' = [handlers EXCEPT
                             ![h].pc = "done",
                             ![h].called = deletes,
                             ![h].outcome = outcome,
                             ![h].reply = CASE outcome = "raised" -> "apology"
                                            [] outcome = "output" -> "answer"
                                            [] OTHER -> "none"]
    /\ UNCHANGED <<prev, advances, agent, received, modes, sending>>

\* ---------------------------------------------------- send_long_message

\* The characters of a content: letters, the space and the newline. A text
\* is the sequence of its characters.
Alphabet == {"a", "b", " ", "\n"}

\* str.split(sep): the pieces between the separators, the empty ones kept.
RECURSIVE split(_, _)
split(text, sep) ==
    IF \A i \in 1..Len(text) : text[i] # sep
    THEN <<text>>
    ELSE LET i == CHOOSE k \in 1..Len(text) :
                      /\ text[k] = sep
                      /\ \A j \in 1..(k - 1) : text[j] # sep
         IN  <<SubSeq(text, 1, i - 1)>> \o split(SubSeq(text, i + 1, Len(text)), sep)

\* The loop over the words of a line that is longer than max_length: a word
\* that does not fit after current_chunk closes it and starts the next chunk.
RECURSIVE AddWords(_, _, _)
AddWords(state, words, max_length) ==
    IF words = <<>> THEN state
    ELSE LET word == Head(words)
             current_chunk == state.current_chunk
         IN  AddWords(
                 IF Len(current_chunk) + Len(word) + 1 > max_length
                 THEN [chunks |-> IF current_chunk # <<>>
                                  THEN Append(state.chunks, current_chunk)
                                  ELSE state.chunks,
                       current_chunk |-> word]
                 ELSE [chunks |-> state.chunks,
                       current_chunk |-> IF current_chunk # <<>>
                                         THEN current_chunk \o <<" ">> \o word
                                         ELSE word],
                 Tail(words), max_length)

\* The loop over the lines of the content.
RECURSIVE AddLines(_, _, _)
AddLines(state, lines, max_length) ==
    IF lines = <<>> THEN state
    ELSE LET line == Head(lines)
             current_chunk == state.current_chunk
             closed == [chunks |-> IF current_chunk # <<>>
                                   THEN Append(state.chunks, current_chunk)
                                   ELSE state.chunks,
                        current_chunk |-> <<>>]
         IN  AddLines(
                 IF Len(current_chunk) + Len(line) + 1 > max_length
                 THEN IF Len(line) > max_length
                      THEN AddWords(closed, split(line, " "), max_length)
                      ELSE [closed EXCEPT !.current_chunk = line]
                 ELSE [chunks |-> state.chunks,
                       current_chunk |-> IF current_chunk # <<>>
                                         THEN current_chunk \o <<"\n">> \o line
                                         ELSE line],
                 Tail(lines), max_length)

\* The messages send_long_message sends for a content, in order: the content
\* itself when it fits, and the chunks of its lines and words otherwise.
Chunks(content, max_length) ==
    IF Len(content) <= max_length
    THEN <<content>>
    ELSE LET state == AddLines([chunks |-> <<>>, current_chunk |-> <<>>],
                               split(content, "\n"), max_length)
         IN  IF state.current_chunk # <<>>
             THEN Append(state.chunks, state.current_chunk)
             ELSE state.chunks

NotSending ==
    [content |-> <<>>, max_length |-> 0, pc |-> "idle", chunks |-> <<>>, sent |-> <<>>]

\* send_long_message up to its first channel.send.
send_long_message ==
    /\ sending.pc = "called"
    /\ LET chunks == Chunks(sending.content, sending.max_length)
       IN  sending' = [sending EXCEPT
                          !.chunks = chunks,
                          !.pc = IF chunks = <<>> THEN "done" ELSE "sending"]
    /\ UNCHANGED <<server, agent, handlers, received, modes>>

\* channel.send of the next message.
channel_send ==
    /\ sending.pc = "sending"
    /\ sending' = [sending EXCEPT
                      !.sent = Append(@, Head(sending.chunks)),
                      !.chunks = Tail(@),
                      !.pc = IF Tail(sending.chunks) = <<>> THEN "done" ELSE "sending"]
    /\ UNCHANGED <<server, agent, handlers, received, modes>>

\* ------------------------------------------------------- the mode store

\* The users of the bot, and the persona ids they may ask for.
Users == {"ann", "ben"}

PersonaChoices == {"general", "weight", "rust", "cpp", "python", "bogus"}

\* The persona of a user without a usable entry.
default_persona == "general"

UnknownPersona == [kind |-> "UnknownPersona"]

\* set_mode that stores whatever persona id it is given.
set_mode_unchecked(user_id, persona_id) ==
    /\ modes' = [u \in DOMAIN modes \cup {user_id} |->
                    IF u = user_id THEN persona_id ELSE modes[u]]
    /\ Returns("set_mode", "none",
               [user_id |-> user_id, persona_id |-> persona_id, modes |-> modes],
               [kind |-> "ok"])
    /\ UNCHANGED <<progress, weights, now, inflight, handlers, received, sending>>

\* set_mode: UnknownPersona for an id that is not in the catalog, and the
\* upsert of the user's entry otherwise.
set_mode(user_id, persona_id) ==
    /\ IF persona_id \notin DOMAIN personas
       THEN /\ Returns("set_mode", "none",
                       [user_id |-> user_id, persona_id |-> persona_id,
                        modes |-> modes],
                       UnknownPersona)
            /\ UNCHANGED modes
       ELSE /\ modes' = [u \in DOMAIN modes \cup {user_id} |->
                           IF u = user_id THEN persona_id ELSE modes[u]]
            /\ Returns("set_mode", "none",
                       [user_id |-> user_id, persona_id |-> persona_id,
                        modes |-> modes],
                       [kind |-> "ok"])
    /\ UNCHANGED <<progress, weights, now, inflight, handlers, received, sending>>

\* get_mode: the user's entry, or the default when there is none or when its
\* persona is not in the catalog.
get_mode(user_id) ==
    /\ Returns("get_mode", "none", [user_id |-> user_id, modes |-> modes],
               [kind |-> "mode",
                persona_id |->
                    IF user_id \in DOMAIN modes /\ modes[user_id] \in DOMAIN personas
                    THEN modes[user_id]
                    ELSE default_persona])
    /\ UNCHANGED <<progress, weights, now, inflight, handlers, received, modes, sending>>

\* ------------------------------------------------------- specifications

\* The stores when the server starts: the progress documents init_db left,
\* and the weight records of earlier runs.
InitStores(inserted, records) ==
    /\ progress = init_db(inserted)
    /\ weights = records
    /\ now = 0
    /\ inflight = EmptyBag
    /\ last = NoCall
    /\ prev = NoCall
    /\ advances = [l \in Languages |-> 0]

\* The agent process before initialize_personas is called: the catalog is
\* the empty dictionary.
InitAgent(tools) ==
    /\ advertised = tools
    /\ mcp_tools = <<>>
    /\ attempt = 0
    /\ pc = "idle"
    /\ personas = [id \in {} |-> Persona("", <<>>)]
    /\ log = <<>>
    /\ runs = 0
    /\ built = <<>>

\* The bot before its first message, and the empty mode store.
InitBot ==
    /\ handlers = [h \in {} |-> 0]
    /\ received = 0
    /\ modes = [user \in {} |-> ""]
    /\ sending = NotSending

Init ==
    /\ InitBot
    /\ \E inserted \in 0..Len(languages) :
          InitStores(inserted, <<[weight |-> 70, unit |-> "kg", timestamp |-> 0]>>)
    /\ InitAgent(<<>>)

Untracked == UNCHANGED <<prev, advances>> /\ UNCHANGED <<agent, bot>>

Next ==
    \/ \E l \in Languages : get_topic(l) /\ Untracked
    \/ \E l \in Languages : advance_read(l) /\ Untracked
    \/ \E request \in BagToSet(inflight) : advance_write(request) /\ Untracked
    \/ \E l \in Languages : reset_progress(l) /\ Untracked
    \/ Tick

\* The curriculum tools, called by several clients: their requests
\* interleave at the operations on the store.
Spec == Init /\ [][Next]_vars

NoneInFlight == inflight = EmptyBag

\* One client's bookkeeping: the call before the last, and the advance calls
\* that returned for each language since its last reset.
Tally ==
    /\ UNCHANGED <<agent, bot>>
    /\ IF NoneInFlight'
       THEN /\ prev' = Summary(last)
            /\ advances' =
                  CASE last'.op = "advance_topic" ->
                           [advances EXCEPT ![last'.language] = @ + 1]
                    [] last'.op = "reset_progress" ->
                           [advances EXCEPT ![last'.language] = 0]
                    [] OTHER -> advances
       ELSE UNCHANGED <<prev, advances>>

NextSeq ==
    \/ \E l \in Languages : NoneInFlight /\ get_topic(l) /\ Tally
    \/ \E l \in Languages :
          NoneInFlight /\ advances[l] < MaxCalls /\ advance_read(l) /\ Tally
    \/ \E request \in BagToSet(inflight) : advance_write(request) /\ Tally
    \/ \E l \in Languages : NoneInFlight /\ reset_progress(l) /\ Tally
    \/ Tick

\* The curriculum tools, called by one client: every request returns before
\* the next one starts.
SpecSeq == Init /\ [][NextSeq]_vars

Noted == prev' = Summary(last) /\ UNCHANGED advances /\ UNCHANGED <<agent, bot>>

NextWeights ==
    \/ \E e \in Entries : record_weight(e.weight, e.unit) /\ Noted
    \/ get_weights /\ Noted
    \/ get_last_weight /\ Noted
    \/ delete_all_weights /\ Noted
    \/ Tick

InitWeights == InitStores(Len(languages), <<>>) /\ InitAgent(<<>>) /\ InitBot

\* The weight tools, called by one client.
SpecWeights == InitWeights /\ [][NextWeights]_vars

NextAgent ==
    \/ initialize_personas /\ runs = 0 /\ UNCHANGED <<server, bot>>
    \/ get_tools_raises /\ UNCHANGED <<server, bot>>
    \/ sleep /\ UNCHANGED <<server, bot>>
    \/ \E tools \in {<<>>, advertised} : get_tools_returns(tools) /\ UNCHANGED <<server, bot>>
    \/ create_personas /\ UNCHANGED <<server, bot>>
    \/ \E k \in 1..Len(persona_ids) : create_personas_raises(k) /\ UNCHANGED <<server, bot>>

InitAgentSpec ==
    /\ InitBot
    /\ InitStores(Len(languages), <<>>)
    /\ \E tools \in ToolLists : InitAgent(tools)

\* One call of initialize_personas, against a server that advertises any of
\* the tool lists: an attempt fails, or lists nothing yet, or lists the
\* server's tools.
SpecAgent == InitAgentSpec /\ [][NextAgent]_vars

NextServer ==
    \/ \E l \in Languages : NoneInFlight /\ get_topic(l) /\ Untracked
    \/ \E l \in Languages : NoneInFlight /\ advance_read(l) /\ Untracked
    \/ \E request \in BagToSet(inflight) : advance_write(request) /\ Untracked
    \/ \E l \in Languages : NoneInFlight /\ reset_progress(l) /\ Untracked
    \/ \E e \in Entries : NoneInFlight /\ record_weight(e.weight, e.unit) /\ Untracked
    \/ NoneInFlight /\ get_weights /\ Untracked
    \/ NoneInFlight /\ get_last_weight /\ Untracked
    \/ NoneInFlight /\ delete_all_weights /\ Untracked

\* The server some time after its start: the documents init_db left and one
\* weight record, both written at time 0.
InitServer ==
    /\ \E inserted \in 0..Len(languages) : progress = init_db(inserted)
    /\ weights = <<[weight |-> 70, unit |-> "kg", timestamp |-> 0]>>
    /\ now = MaxClock
    /\ inflight = EmptyBag
    /\ last = NoCall
    /\ prev = NoCall
    /\ advances = [l \in Languages |-> 0]
    /\ InitBot
    /\ InitAgent(<<>>)

\* The curriculum tools and the weight tools of one server, called one
\* after another.
SpecServer == InitServer /\ [][NextServer]_vars

\* The tools server.py registers with @mcp.tool, in its order.
server_tools ==
    <<McpTool("record_weight"), McpTool("get_weights"),
      McpTool("get_last_weight"), McpTool("delete_all_weights"),
      McpTool("get_rust_topic"), McpTool("advance_rust_topic"),
      McpTool("reset_rust_progress"),
      McpTool("get_cpp_topic"), McpTool("advance_cpp_topic"),
      McpTool("reset_cpp_progress"),
      McpTool("get_python_topic"), McpTool("advance_python_topic"),
      McpTool("reset_python_progress"),
      McpTool("get_history_britannica"), McpTool("get_history_today"),
      McpTool("get_history_on_this_day"),
      McpTool("get_current_weather_london")>>

\* The steps of a running call of initialize_personas: each is an await or
\* straight-line code of the event loop, which runs it when it can.
Discovery ==
    \/ get_tools_raises /\ UNCHANGED <<server, bot>>
    \/ sleep /\ UNCHANGED <<server, bot>>
    \/ \E tools \in {<<>>, advertised} : get_tools_returns(tools) /\ UNCHANGED <<server, bot>>
    \/ create_personas /\ UNCHANGED <<server, bot>>
    \/ \E k \in 1..Len(persona_ids) : create_personas_raises(k) /\ UNCHANGED <<server, bot>>

NextCatalog ==
    \/ initialize_personas /\ UNCHANGED <<server, bot>>
    \/ get_tools_raises /\ UNCHANGED <<server, bot>>
    \/ sleep /\ UNCHANGED <<server, bot>>
    \/ \E tools \in {<<>>, advertised} : get_tools_returns(tools) /\ UNCHANGED <<server, bot>>
    \/ create_personas /\ UNCHANGED <<server, bot>>
    \/ \E k \in 1..Len(persona_ids) : create_personas_raises(k) /\ UNCHANGED <<server, bot>>

InitCatalog ==
    /\ InitBot
    /\ InitStores(Len(languages), <<>>)
    /\ InitAgent(server_tools)

\* Calls of initialize_personas, one after another, against the server of
\* this repository; a call that has started goes on until it ends.
SpecCatalog == InitCatalog /\ [][NextCatalog]_vars /\ WF_vars(Discovery)

Kept == prev' = Summary(last) /\ UNCHANGED <<advances, agent>>

NextModes ==
    \/ \E u \in Users, p \in PersonaChoices : set_mode(u, p) /\ Kept
    \/ \E u \in Users : get_mode(u) /\ Kept

\* The agent process after a call of initialize_personas whose first
\* attempt listed the tools.
InitAgentDone(tools) ==
    /\ advertised = tools
    /\ mcp_tools = tools
    /\ attempt = 0
    /\ pc = "done"
    /\ personas = CreatePersonas([id \in {} |-> Persona("", <<>>)], tools)
    /\ log = <<Attempted(0, FALSE, tools)>>
    /\ runs = 1
    /\ built = <<[tools |-> tools, personas |-> personas]>>

InitModes ==
    /\ InitStores(Len(languages), <<>>)
    /\ InitBot
    /\ InitAgent(server_tools) \/ InitAgentDone(server_tools)

\* The mode store, with the catalog as it is before initialize_personas is
\* called or as a call that discovered the server's tools leaves it.
SpecModes == InitModes /\ [][NextModes]_vars

NextBot ==
    \/ \E author \in Authors, channel \in Channels, content \in Contents :
          on_message(author, channel, content)
    \/ \E h \in DOMAIN handlers : send_prompt(h)
    \/ \E h \in DOMAIN handlers : timeout(h)
    \/ \E h \in DOMAIN handlers : confirmed(h)
    \/ \E h \in DOMAIN handlers : weight(h)
    \/ \E h \in DOMAIN handlers : ainvoke(h)

\* The stores the bot's commands work on: one weight record, and the rust
\* progress after one advance.
BotWeights == <<[weight |-> 70, unit |-> "kg", timestamp |-> 0]>>

BotProgress == UpdateOne(init_db(Len(languages)), "rust", 1, 0)

InitBotSpec ==
    /\ progress = BotProgress
    /\ weights = BotWeights
    /\ now = 0
    /\ inflight = EmptyBag
    /\ last = NoCall
    /\ prev = NoCall
    /\ advances = [l \in Languages |-> 0]
    /\ InitBot
    /\ InitAgent(server_tools)

\* The bot's message handlers: the commands weight, reset and rust restart, and the
\* agent for the messages that are no command.
SpecBot == InitBotSpec /\ [][NextBot]_vars

\* The contents send_long_message is given.
Texts == UNION {[1..n -> Alphabet] : n \in 0..MaxContent}

NextSend == send_long_message \/ channel_send

InitSend ==
    /\ InitStores(Len(languages), <<>>)
    /\ InitAgent(<<>>)
    /\ handlers = [h \in {} |-> 0]
    /\ received = 0
    /\ modes = [user \in {} |-> ""]
    /\ \E content \in Texts, max_length \in 1..MaxLength :
          sending = [NotSending EXCEPT
                        !.content = content, !.max_length = max_length,
                        !.pc = "called"]

\* One call of send_long_message, for every content and every max_length.
SpecSend == InitSend /\ [][NextSend]_vars

\* ----------------------------------------------------------------- claims

Min(a, b) == IF a <= b THEN a ELSE b

Stored(store, language) == store[language].current_topic_index

\* C1: for a language with a loaded curriculum of N topics, after k advance
\* calls in a row by one client, counted from index 0 (the start, or the last
\* reset), the stored index is min(k, N).
C1_AdvancesReachMin ==
    \A l \in Languages :
        total_topics[l] > 0 /\ progress[l] # NoDoc =>
            Stored(progress, l) = Min(advances[l], total_topics[l])

\* More advance calls than topics were made, and the index stopped at N.
C1_Witness ==
    /\ last.op = "advance_topic"
    /\ last.language = "rust"
    /\ progress["rust"] # NoDoc
    /\ advances["rust"] > total_topics["rust"]
    /\ Stored(progress, "rust") = total_topics["rust"]

\* C2: no lost update.  When an advance request that read index i writes,
\* with no reset since its read, after another request moved the index from
\* i to i+1, and i+2 <= N, the stored index becomes i+2.
C2_NoLostUpdate ==
    (/\ last.op = "advance_topic"
     /\ last.result.kind = "topic"
     /\ ~last.args.reset_seen
     /\ last.progress[last.language] # NoDoc
     /\ Stored(last.progress, last.language) = last.args.read_index + 1
     /\ last.args.read_index + 2 <= total_topics[last.language])
    => Stored(progress, last.language) = last.args.read_index + 2

\* C3: the stored index of a language never decreases in a step, unless the
\* step is the write of a reset of that language, which leaves it 0.
C3_NeverDecreases ==
    last.op # "none" =>
        \A l \in Languages :
            (/\ last.progress[l] # NoDoc
             /\ Stored(progress, l) < Stored(last.progress, l))
            => (/\ last.op = "reset_progress"
                /\ last.language = l
                /\ Stored(progress, l) = 0)

\* C4: in every state and for every language, the stored index is at least 0
\* and at most the length of the curriculum.
C4_IndexInRange ==
    \A l \in Languages :
        progress[l] # NoDoc =>
            /\ 0 <= Stored(progress, l)
            /\ Stored(progress, l) <= total_topics[l]

\* The index is at the end, and an advance call made there left it there.
C4_Witness ==
    /\ last.op = "advance_topic"
    /\ last.result.kind = "All topics completed"
    /\ progress[last.language] # NoDoc
    /\ Stored(progress, last.language) = total_topics[last.language]
    /\ inflight # EmptyBag

\* C5 as stated: get returns a topic only when i < N, the entry at position
\* i, and whenever i >= N it returns the 'All topics completed' marker.
C5_AsStated ==
    last.op = "get_topic" =>
        LET l == last.language
            i == ReadIndex(last.progress, l)
        IN  /\ last.result.kind # "IndexError"
            /\ last.result.kind = "topic" =>
                   /\ i < total_topics[l]
                   /\ last.result.topic = load_curriculum(l)[i + 1]
            /\ (last.progress[l] # NoDoc /\ i >= total_topics[l]) =>
                   last.result.kind = "All topics completed"

\* C5, amended: get returns a topic exactly when i < N, the entry at position
\* i; when i >= N it returns the 'All topics completed' marker if the
\* language has a curriculum (N > 0) and the 'curriculum not found' marker if
\* it has none; it never subscripts the curriculum out of range.
C5_GetTopic ==
    last.op = "get_topic" =>
        LET l == last.language
            i == ReadIndex(last.progress, l)
        IN  /\ last.result.kind # "IndexError"
            /\ last.result.kind = "topic" <=> i < total_topics[l]
            /\ last.result.kind = "topic" =>
                   last.result.topic = load_curriculum(l)[i + 1]
            /\ (i >= total_topics[l] /\ total_topics[l] > 0) =>
                   last.result.kind = "All topics completed"
            /\ total_topics[l] = 0 => last.result = NotFound(l)

\* A get at the end of a curriculum returned the completion marker.
C5_Witness ==
    /\ last.op = "get_topic"
    /\ last.result.kind = "All topics completed"
    /\ ReadIndex(last.progress, last.language) = total_topics[last.language]

\* C6: a get leaves every progress document (index and updated_at) and the
\* weight store as they were.
C6_GetReadOnly ==
    last.op = "get_topic" =>
        /\ progress = last.progress
        /\ weights = last.weights

\* A get ran on a document written earlier than now, with weights stored.
C6_Witness ==
    /\ last.op = "get_topic"
    /\ last.result.kind = "topic"
    /\ progress[last.language] # NoDoc
    /\ progress[last.language].updated_at < last.clock
    /\ weights # <<>>

\* C7 as stated: an advance invoked with i >= N returns the 'All topics
\* completed' marker and leaves the progress document of the language
\* unchanged.
C7_AsStated ==
    (/\ last.op = "advance_topic"
     /\ last.progress[last.language] # NoDoc
     /\ ReadIndex(last.progress, last.language) >= total_topics[last.language])
    => /\ last.result.kind = "All topics completed"
       /\ progress[last.language] = last.progress[last.language]

\* C7, amended: an advance invoked with i >= N leaves the progress document
\* of the language unchanged, and returns the 'All topics completed' marker
\* if the language has a curriculum, the 'curriculum not found' marker if it
\* has none.
C7_AdvanceAtEnd ==
    (/\ last.op = "advance_topic"
     /\ ReadIndex(last.progress, last.language) >= total_topics[last.language])
    => /\ progress[last.language] = last.progress[last.language]
       /\ total_topics[last.language] > 0 =>
              last.result.kind = "All topics completed"
       /\ total_topics[last.language] = 0 =>
              last.result = NotFound(last.language)

\* An advance ran at the end of a curriculum, later than the last write.
C7_Witness ==
    /\ last.op = "advance_topic"
    /\ last.result.kind = "All topics completed"
    /\ progress[last.language] # NoDoc
    /\ Stored(progress, last.language) = total_topics[last.language]
    /\ progress[last.language].updated_at < last.clock

\* C8: an advance invoked with stored index i < N stores i+1, and returns the
\* topic at position i+1 when i+1 < N, the congratulations when i+1 = N.
C8_AdvanceStep ==
    last.op = "advance_topic" =>
        LET l == last.language
            i == ReadIndex(last.progress, l)
        IN  (last.progress[l] # NoDoc /\ i < total_topics[l]) =>
                /\ Stored(progress, l) = i + 1
                /\ last.result.kind # "IndexError"
                /\ i + 1 < total_topics[l] =>
                       /\ last.result.kind = "topic"
                       /\ last.result.topic = load_curriculum(l)[i + 2]
                /\ i + 1 = total_topics[l] =>
                       last.result.kind = "Congratulations"

\* An advance moved to a topic past the first one.
C8_Witness ==
    /\ last.op = "advance_topic"
    /\ last.result.kind = "topic"
    /\ last.result.topic.position = 1
    /\ progress[last.language] # NoDoc
    /\ Stored(progress, last.language) = 1

\* C9: a reset returns its confirmation, and a get of the same language right
\* after it returns the topic at position 0, or the 'curriculum not found'
\* marker when the language has no curriculum.
C9_ResetThenGet ==
    (/\ last.op = "get_topic"
     /\ prev.op = "reset_progress"
     /\ prev.language = last.language)
    => /\ prev.result.kind = "progress successfully reset"
       /\ IF total_topics[last.language] = 0
          THEN last.result = NotFound(last.language)
          ELSE /\ last.result.kind = "topic"
               /\ last.result.topic = load_curriculum(last.language)[1]

\* A reset of a language that was at the end of its curriculum, then a get
\* of it.
C9_Witness ==
    /\ last.op = "get_topic"
    /\ prev.op = "reset_progress"
    /\ prev.language = last.language
    /\ prev.progress[prev.language] # NoDoc
    /\ Stored(prev.progress, prev.language) = total_topics[prev.language]
    /\ last.result.kind = "topic"
    /\ last.result.topic.position = 0

\* C10: get_last_weight right after record_weight(w, u) returns a record of
\* weight w and unit u, with a timestamp not before the call.
C10_RecordThenLast ==
    (last.op = "get_last_weight" /\ prev.op = "record_weight") =>
        /\ last.result.kind = "record"
        /\ last.result.record.weight = prev.args.weight
        /\ last.result.record.unit = prev.args.unit
        /\ IsoParse(last.result.record.timestamp) >= prev.clock

\* The number of places of a sequence that hold x.
Count(seq, x) == Cardinality({i \in 1..Len(seq) : seq[i] = x})

\* C11: delete_all_weights reports as deleted the number of records the
\* store held just before it and leaves the store empty, and a get_weights
\* right after it returns the empty sequence.
C11_DeleteThenList ==
    /\ last.op = "delete_all_weights" =>
          /\ last.result.kind = "Deleted"
          /\ last.result.deleted_count = Len(last.weights)
          /\ weights = <<>>
    /\ (last.op = "get_weights" /\ prev.op = "delete_all_weights") =>
          last.result.records = <<>>

\* A delete of a store of two records, then a get_weights.
C11_Witness ==
    /\ last.op = "get_weights"
    /\ prev.op = "delete_all_weights"
    /\ prev.result.deleted_count = 2

\* C12: every record of the weight store has a weight above zero and a unit
\* of kg or lbs.
C12_RecordsValid ==
    \A i \in 1..Len(weights) :
        /\ weights[i].weight > 0
        /\ weights[i].unit \in {"kg", "lbs"}

\* C13: get_weights returns every record of the store exactly once, newest
\* timestamp first, and its first element is a record get_last_weight may
\* return in the same state.
C13_ListIsSortedStore ==
    last.op = "get_weights" =>
        LET records == last.result.records
            stored == [i \in 1..Len(last.weights) |-> Returned(last.weights[i])]
        IN  /\ Len(records) = Len(stored)
            /\ \A i \in 1..Len(stored) :
                   Count(records, stored[i]) = Count(stored, stored[i])
            /\ \A i, j \in 1..Len(records) :
                   i < j => IsoParse(records[i].timestamp)
                              >= IsoParse(records[j].timestamp)
            /\ records # <<>> =>
                   \E newest \in SortedByTimestampDesc(last.weights) :
                       records[1] = Returned(newest[1])

\* A get_weights of two records of different timestamps, stored oldest
\* first.
C13_Witness ==
    /\ last.op = "get_weights"
    /\ Len(last.weights) = 2
    /\ last.weights[1].timestamp < last.weights[2].timestamp
    /\ Len(last.result.records) = 2

\* C14: get_last_weight of an empty store returns the marker
\* 'No weight records found' as its result and changes no store.
C14_LastOfEmpty ==
    (last.op = "get_last_weight" /\ last.weights = <<>>) =>
        /\ last.result = [kind |-> "No weight records found"]
        /\ weights = last.weights
        /\ progress = last.progress

\* A get_last_weight of an empty store.
C14_Witness ==
    /\ last.op = "get_last_weight"
    /\ last.weights = <<>>
    /\ last.result.kind = "No weight records found"

\* C15: for a language whose curriculum is absent, get and advance return
\* 'curriculum not found' as their result and leave the progress record
\* of the language as it was.
C15_NoCurriculum ==
    (/\ last.op \in {"get_topic", "advance_topic"}
     /\ load_curriculum(last.language) = <<>>)
    => /\ last.result.kind = "curriculum not found"
       /\ last.result.language = last.language
       /\ progress[last.language] = last.progress[last.language]

\* A get and then an advance of the language without curriculum, its
\* progress document present.
C15_Witness ==
    /\ last.op = "advance_topic"
    /\ prev.op = "get_topic"
    /\ prev.language = last.language
    /\ load_curriculum(last.language) = <<>>
    /\ progress[last.language] # NoDoc
    /\ last.result.kind = "curriculum not found"
    /\ prev.result.kind = "curriculum not found"

\* The elements of a sequence.
Range(seq) == {seq[i] : i \in 1..Len(seq)}

\* The ids of the personas whose toolset holds the tool.
BoundTo(tool) == {id \in DOMAIN personas : tool \in Range(personas[id].tools)}

\* C16: whatever the names of the discovered tools, each of them is in at
\* most one of the groups weight, rust, cpp, python and history, and so in
\* the toolset of at most one persona.
C16_AtMostOneGroup ==
    pc = "done" =>
        \A tool \in Range(mcp_tools) :
            /\ Cardinality({group \in {weight_mcp(mcp_tools), rust_mcp(mcp_tools),
                                       cpp_mcp(mcp_tools), python_mcp(mcp_tools),
                                       history_mcp(mcp_tools)} :
                                tool \in Range(group)}) <= 1
            /\ Cardinality(BoundTo(tool)) <= 1

\* The arrangements of a list of tools.
Arrangements(tools) ==
    LET n == Len(tools)
    IN  {[i \in 1..n |-> tools[p[i]]] : p \in
            {q \in [1..n -> 1..n] : \A i, j \in 1..n : i # j => q[i] # q[j]}}

\* C17: for any tool list, in any arrangement, every tool whose name holds
\* "rust" is in the rust group and in no other group, and the rust group of
\* the rust group is the rust group.
C17_RustGroup ==
    pc = "done" =>
        /\ \A arranged \in Arrangements(mcp_tools) :
              \A tool \in Range(arranged) :
                  Contains(tool.name, "rust") =>
                      /\ tool \in Range(rust_mcp(arranged))
                      /\ tool \notin Range(weight_mcp(arranged))
                      /\ tool \notin Range(cpp_mcp(arranged))
                      /\ tool \notin Range(python_mcp(arranged))
                      /\ tool \notin Range(history_mcp(arranged))
                      /\ BoundTo(tool) = {"rust"}
        /\ rust_mcp(rust_mcp(mcp_tools)) = rust_mcp(mcp_tools)

\* The tools of a list whose name holds one of the words, as a set.
Named(tools, words) ==
    {tool \in Range(tools) : \E word \in words : Contains(tool.name, word)}

\* C18: when initialize_personas has finished, the catalog has the five ids
\* general, weight, rust, cpp and python; general holds the local weather
\* tool and the discovered tools named "history", each other persona the
\* discovered tools named with its word ("weight" or "data" for weight),
\* each tool once. The tools record_weight, get_weights, rust_get_topic give
\* weight the first two, rust the third, and general the local tool alone.
C18_Catalog ==
    pc = "done" =>
        /\ DOMAIN personas = {"general", "weight", "rust", "cpp", "python"}
        /\ Range(personas["general"].tools) =
               {get_current_weather_london} \cup Named(mcp_tools, {"history"})
        /\ Range(personas["weight"].tools) = Named(mcp_tools, {"weight", "data"})
        /\ Range(personas["rust"].tools) = Named(mcp_tools, {"rust"})
        /\ Range(personas["cpp"].tools) = Named(mcp_tools, {"cpp"})
        /\ Range(personas["python"].tools) = Named(mcp_tools, {"python"})
        /\ \A id \in DOMAIN personas :
              Len(personas[id].tools) = Cardinality(Range(personas[id].tools))
        /\ mcp_tools = <<McpTool("record_weight"), McpTool("get_weights"),
                         McpTool("rust_get_topic")>> =>
              /\ personas["weight"].tools =
                     <<McpTool("record_weight"), McpTool("get_weights")>>
              /\ personas["rust"].tools = <<McpTool("rust_get_topic")>>
              /\ personas["general"].tools = <<get_current_weather_london>>
              /\ personas["cpp"].tools = <<>>
              /\ personas["python"].tools = <<>>

\* The catalog built from a history tool, a weight tool and a rust tool.
C18_Witness ==
    /\ pc = "done"
    /\ mcp_tools = <<McpTool("get_history_today"), McpTool("export_data"),
                     McpTool("rust_get_topic")>>
    /\ Len(personas["general"].tools) = 2
    /\ Len(personas["weight"].tools) = 1

\* The attempts in the log, and those that listed tools.
Attempts == {i \in 1..Len(log) : log[i].event = "attempt"}

Listed == {i \in Attempts : ~log[i].raised /\ log[i].tools # <<>>}

\* C19: discovery makes at most max_retries attempts and makes none after
\* the first one that lists tools; the tools it goes on with are those of
\* that attempt, or none when no attempt listed any.
C19_DiscoveryStops ==
    /\ Cardinality(Attempts) <= max_retries
    /\ \A i \in Listed : i = Len(log)
    /\ pc \in {"create", "done"} =>
          IF Listed = {}
          THEN mcp_tools = <<>> /\ Cardinality(Attempts) = max_retries
          ELSE mcp_tools = log[Len(log)].tools

\* Four attempts without tools, a raised one and an empty one among them,
\* and a fifth that lists the server's tools.
C19_Witness ==
    /\ pc = "done"
    /\ Cardinality(Attempts) = max_retries
    /\ Listed # {}
    /\ \E i \in Attempts : log[i].raised
    /\ \E i \in Attempts : ~log[i].raised /\ log[i].tools = <<>>
    /\ Len(mcp_tools) = 2

\* C20: between any two consecutive attempts of the discovery loop a sleep of
\* retry_delay is made, whether the earlier attempt raised or listed nothing.
C20_DelayBetweenAttempts ==
    \A i \in Attempts :
        (i + 1) \in 1..Len(log) => log[i + 1] = Slept(retry_delay)

\* The catalog of a call that discovered no tool.
Degraded(catalog) ==
    /\ DOMAIN catalog = {"general", "weight", "rust", "cpp", "python"}
    /\ catalog["general"].tools = <<get_current_weather_london>>
    /\ \A id \in {"weight", "rust", "cpp", "python"} : catalog[id].tools = <<>>

\* C21: the discovery loop always comes to its end; when no attempt listed
\* tools, the discovered list and the five groups are empty, the call does
\* not raise, and it finishes with the five personas built, general holding
\* the local tool alone.
C21_SoftFailure ==
    /\ []((pc \in {"create", "done"} /\ Listed = {}) =>
             /\ Cardinality(Attempts) = max_retries
             /\ mcp_tools = <<>>
             /\ weight_mcp(mcp_tools) = <<>>
             /\ rust_mcp(mcp_tools) = <<>>
             /\ cpp_mcp(mcp_tools) = <<>>
             /\ python_mcp(mcp_tools) = <<>>
             /\ history_mcp(mcp_tools) = <<>>)
    /\ []((pc = "done" /\ Listed = {}) => Degraded(personas))
    /\ [](pc = "raised" => Listed # {})
    /\ (pc = "connect") ~> (pc = "create")
    /\ (pc = "create" /\ Listed = {}) ~> (pc = "done" /\ Listed = {})

\* A call that finished after five attempts without tools, the last of them
\* raised.
C21_Witness ==
    /\ pc = "done"
    /\ Listed = {}
    /\ Cardinality(Attempts) = max_retries
    /\ log[Len(log)].raised
    /\ Degraded(personas)

\* C22: the catalog any task can see is a whole one: the catalog as it was
\* before initialize_personas was first called, or the catalog a finished
\* construction left, also when the construction of a persona fails
\* part-way.
C22_CatalogWhole ==
    \/ DOMAIN personas = {}
    \/ \E i \in 1..Len(built) : personas = built[i].personas

\* C23: a call of initialize_personas that finishes with the same discovered
\* tools as an earlier one leaves the catalog with the same ids and the same
\* toolsets as that one left it.
C23_Idempotent ==
    /\ \A i, j \in 1..Len(built) :
          built[i].tools = built[j].tools => built[i].personas = built[j].personas
    /\ (pc = "done" /\ built # <<>>) => personas = built[Len(built)].personas

\* Two finished calls that both discovered the server's tools.
C23_Witness ==
    /\ pc = "done"
    /\ Len(built) = 2
    /\ built[1].tools = server_tools
    /\ built[2].tools = server_tools
    /\ personas = built[1].personas

\* C25: get_mode of a user without an entry returns the default persona id;
\* get_mode right after a set_mode of the same user to a persona of the
\* catalog returns that persona; set_mode to an id that is not in the catalog
\* fails with UnknownPersona and leaves every user's mode as it was.
C25_ModeStore ==
    /\ (last.op = "get_mode" /\ last.args.user_id \notin DOMAIN last.args.modes) =>
          last.result.persona_id = default_persona
    /\ (/\ last.op = "get_mode"
        /\ prev.op = "set_mode"
        /\ prev.args.user_id = last.args.user_id
        /\ prev.args.persona_id \in DOMAIN personas)
       => /\ prev.result.kind = "ok"
          /\ last.result.persona_id = prev.args.persona_id
    /\ (last.op = "set_mode" /\ last.args.persona_id \notin DOMAIN personas) =>
          /\ last.result = UnknownPersona
          /\ modes = last.args.modes

\* A set_mode to an unknown id by a user whose mode is weight, and then a
\* get_mode of that user.
C25_Witness ==
    /\ last.op = "get_mode"
    /\ prev.op = "set_mode"
    /\ prev.args.user_id = last.args.user_id
    /\ prev.args.persona_id = "bogus"
    /\ prev.result = UnknownPersona
    /\ last.result.persona_id = "weight"

\* The handlers of the messages that went to the agent, and those of the
\* commands reset and rust restart.
AgentHandlers == {h \in DOMAIN handlers : handlers[h].command = "agent"}

CommandHandlers == {h \in DOMAIN handlers : handlers[h].command \in {"reset", "restart"}}

\* C24: the handler of a message that is neither the bot's own nor a command
\* ends with the agent's answer or the apology sent to the user, and with
\* the apology whenever the agent raised; it never ends with an exception.
C24_AnswerOrApology ==
    \A h \in AgentHandlers :
        /\ handlers[h].pc # "raised"
        /\ handlers[h].pc = "done" =>
              /\ handlers[h].reply \in {"answer", "apology"}
              /\ handlers[h].outcome = "raised" => handlers[h].reply = "apology"

\* C30: reset and rust restart call their tool only after a message of the
\* command's author, in the command's channel, with the content 'yes' in any
\* case, that arrived after the question was sent; a command whose wait
\* timed out calls no tool, and while no handler has called a tool the
\* stores are as they were.
C30_Gated ==
    /\ \A h \in CommandHandlers :
          /\ handlers[h].called =>
                /\ handlers[h].heard # NoMessage
                /\ handlers[h].heard.author = handlers[h].author
                /\ handlers[h].heard.channel = handlers[h].channel
                /\ Lower(handlers[h].heard.content) = "yes"
                /\ handlers[h].prompted_at >= h
                /\ handlers[h].heard.number > handlers[h].prompted_at
          /\ handlers[h].outcome = "timeout" =>
                /\ ~handlers[h].called
                /\ handlers[h].pc \in {"done", "raised"}
    /\ (\A h \in DOMAIN handlers : ~handlers[h].called) =>
          /\ weights = BotWeights
          /\ progress = BotProgress

\* A reset confirmed with 'Yes' that erased the weight records.
C30_Witness ==
    \E h \in CommandHandlers :
        /\ handlers[h].command = "reset"
        /\ handlers[h].called
        /\ handlers[h].outcome = "returned"
        /\ handlers[h].heard.content = "Yes"
        /\ weights = <<>>

\* C26: record_weight adds one record at the end of the store and leaves
\* the records before it as they are; delete_all_weights is the only
\* operation that removes records, and none changes one.
C26_AppendOnly ==
    [][/\ (last' # last /\ last'.op = "record_weight") =>
             /\ Len(weights') = Len(weights) + 1
             /\ SubSeq(weights', 1, Len(weights)) = weights
             /\ weights'[Len(weights')].weight = last'.args.weight
             /\ weights'[Len(weights')].unit = last'.args.unit
       /\ weights' # weights =>
             \/ last'.op = "record_weight" /\ Len(weights') = Len(weights) + 1
             \/ last'.op = "delete_all_weights" /\ weights' = <<>>]_vars

\* A record_weight on a store of one record.
C26_Witness ==
    /\ last.op = "record_weight"
    /\ Len(last.weights) = 1
    /\ Len(weights) = 2
    /\ weights[1] = last.weights[1]

\* C27: an advance or a reset of a language changes the progress record of
\* that language alone, and no weight record; a weight operation changes no
\* progress record.
C27_Isolation ==
    [][/\ \A l \in Languages :
             progress'[l] # progress[l] =>
                 /\ last'.op \in {"advance_topic", "reset_progress"}
                 /\ last'.language = l
                 /\ \A other \in Languages \ {l} : progress'[other] = progress[other]
                 /\ weights' = weights
       /\ weights' # weights =>
             /\ last'.op \in {"record_weight", "delete_all_weights"}
             /\ progress' = progress]_vars

\* An advance of rust that moved its index, with cpp's index moved before
\* and a weight record in the store.
C27_Witness ==
    /\ last.op = "advance_topic"
    /\ last.language = "rust"
    /\ progress["rust"] # last.progress["rust"]
    /\ progress["cpp"] # NoDoc
    /\ Stored(progress, "cpp") = 1
    /\ weights # <<>>

\* C28: a get right after an advance of the same language returns what the
\* advance returned: the same topic, or the completion marker after the
\* congratulation, also when the language has no progress document.
C28_AdvanceThenGet ==
    (/\ last.op = "get_topic"
     /\ prev.op = "advance_topic"
     /\ prev.language = last.language)
    => /\ prev.result.kind = "topic" =>
             /\ last.result.kind = "topic"
             /\ last.result.topic = prev.result.topic
       /\ prev.result.kind = "Congratulations" =>
             last.result.kind = "All topics completed"

\* The names of the server's tools, by what they are for.
WeightToolNames ==
    {"record_weight", "get_weights", "get_last_weight", "delete_all_weights"}

CurriculumToolNames(language) ==
    CASE language = "rust" ->
             {"get_rust_topic", "advance_rust_topic", "reset_rust_progress"}
      [] language = "cpp" ->
             {"get_cpp_topic", "advance_cpp_topic", "reset_cpp_progress"}
      [] language = "python" ->
             {"get_python_topic", "advance_python_topic", "reset_python_progress"}

HistoryToolNames ==
    {"get_history_britannica", "get_history_today", "get_history_on_this_day"}

\* C29: with the tools the server of this repository advertises, the weight
\* tools are bound to the persona weight alone, the get, advance and reset
\* tools of a language to that language's persona alone, the history tools
\* to general alone, and the server's weather tool to no persona, general
\* having the local one; no two personas share a tool.
C29_Routing ==
    (pc = "done" /\ mcp_tools = server_tools) =>
        /\ \A name \in WeightToolNames : BoundTo(McpTool(name)) = {"weight"}
        /\ \A language \in Languages :
              \A name \in CurriculumToolNames(language) :
                  BoundTo(McpTool(name)) = {language}
        /\ \A name \in HistoryToolNames : BoundTo(McpTool(name)) = {"general"}
        /\ BoundTo(McpTool("get_current_weather_london")) = {}
        /\ BoundTo(get_current_weather_london) = {"general"}
        /\ \A id, other \in DOMAIN personas :
              id # other =>
                  Range(personas[id].tools) \cap Range(personas[other].tools) = {}

\* The catalog built from the server's seventeen tools.
C29_Witness ==
    /\ pc = "done"
    /\ mcp_tools = server_tools
    /\ Len(server_tools) = 17
    /\ Len(personas["weight"].tools) = 4
    /\ Len(personas["rust"].tools) = 3
    /\ Len(personas["general"].tools) = 4

\* The characters of a text that are no separator, and the messages sent
\* put end to end.
Letters(text) == SelectSeq(text, LAMBDA c : c \notin {" ", "\n"})

RECURSIVE Flatten(_)
Flatten(messages) ==
    IF messages = <<>> THEN <<>> ELSE Head(messages) \o Flatten(Tail(messages))

\* C31: no message send_long_message sends is longer than max_length, whatever
\* the content (a line or a word longer than max_length included), and the
\* messages carry the text in its order.
C31_ChunksFit ==
    /\ \A i \in 1..Len(sending.sent) : Len(sending.sent[i]) <= sending.max_length
    /\ sending.pc = "done" =>
           Letters(Flatten(sending.sent)) = Letters(sending.content)

\* The order alone: the letters of the messages sent are those of the content.
C31_InOrder ==
    sending.pc = "done" => Letters(Flatten(sending.sent)) = Letters(sending.content)

\* What the tool of a command returns on the stores it finds.
Expected(command, records) ==
    IF command = "weight"
    THEN [kind |-> "Recorded", weight |-> 70, unit |-> "kg"]
    ELSE [kind |-> "Deleted", deleted_count |-> Len(records)]

\* C32: no failure of call_mcp_tool leaves weight or reset as an exception:
\* when the client fails, before or after the tool ran, the response is None
\* and the command sends its failure message, and a call refused before the
\* tool ran leaves the weight records as they were; when the call succeeds
\* the response is the tool's result and the command sends it.
C32_FailureIsNone ==
    [][\A h \in DOMAIN handlers :
          (handlers[h].command \in {"weight", "reset"}
             /\ ~handlers[h].called /\ handlers'[h].called) =>
              /\ handlers'[h].pc = "done"
              /\ IF handlers'[h].outcome = "returned"
                 THEN /\ handlers'[h].response = Expected(handlers[h].command, weights)
                      /\ handlers'[h].reply = "response"
                 ELSE /\ handlers'[h].response = None
                      /\ handlers'[h].reply = "failed"
              /\ handlers'[h].outcome = "refused" => weights' = weights]_vars

\* A weight command whose call failed and one whose call returned.
C32_Witness ==
    \E failed \in DOMAIN handlers, sent \in DOMAIN handlers :
        /\ handlers[failed].command = "weight"
        /\ handlers[failed].outcome \in {"refused", "lost"}
        /\ handlers[failed].reply = "failed"
        /\ handlers[sent].command = "weight"
        /\ handlers[sent].outcome = "returned"
        /\ handlers[sent].reply = "response"

====
